---------------------------- MODULE Spec2Model ----------------------------
(***************************************************************************)
(* Model of src/src/decode_frame.cpp: the one-shot decode                  *)
(* (DecodeFrame::CreateFromVP8Stream) and the strided sub-rectangle copy   *)
(* (DecodeFrame::CopyPixels).                                              *)
(*                                                                         *)
(* The C++ types int and UINT are 32 bits wide.  The model keeps the same  *)
(* two's-complement arithmetic at a reduced width of IntBits bits, and the *)
(* inputs are drawn from sets built around the limits of that width, so    *)
(* that every overflow of the code has a scaled instance.                  *)
(*                                                                         *)
(* Behaviour the C++ standard leaves open is a choice of the build:        *)
(*   - signed overflow (undefined): the value wraps, or the compiler       *)
(*     evaluates the expression in a wider register ("wide");              *)
(*   - unsigned division by zero (undefined): the CPU traps, or the        *)
(*     instruction yields 0 or all ones;                                   *)
(*   - an access outside a buffer (undefined): it faults or goes through;  *)
(*   - whether the new-initializer is evaluated when the nothrow           *)
(*     allocation function returns null (unspecified before C++17).        *)
(***************************************************************************)
EXTENDS Integers, FiniteSets, Sequences, TLC

(* ------------------------------ bounds --------------------------------- *)

\* width in bits of int and UINT in the model
IntBits == 6

\* number of threads calling CopyPixels in SpecConc
NThreads == 2

(* ------------------------- machine arithmetic -------------------------- *)

TwoW == 2 ^ IntBits
IntMax == 2 ^ (IntBits - 1) - 1
IntMin == -(2 ^ (IntBits - 1))
UIntMax == 2 ^ IntBits - 1

\* two's-complement value of v in an int
WrapInt(v) == ((v - IntMin) % TwoW) + IntMin

\* static_cast<UINT>(v), also the conversion of an int to the size_t of memcpy
ToUInt(v) == v % TwoW

OverflowModes == {"wrap", "wide"}
DivZeroModes == {"trap", "zero", "ones"}

\* result of a signed int expression whose mathematical value is v
Ovf(ovf, v) ==
    IF v >= IntMin /\ v <= IntMax THEN v
    ELSE IF ovf = "wrap" THEN WrapInt(v) ELSE v

(* ----------------------------- constants ------------------------------- *)

kBytesPerPixel == 4

S_OK == "S_OK"
E_INVALIDARG == "E_INVALIDARG"
E_OUTOFMEMORY == "E_OUTOFMEMORY"
E_FAIL == "E_FAIL"
WINCODEC_ERR_BADIMAGE == "WINCODEC_ERR_BADIMAGE"
WINCODEC_ERR_INSUFFICIENTBUFFER == "WINCODEC_ERR_INSUFFICIENTBUFFER"
\* the process is terminated by a hardware fault (no HRESULT is returned)
Crash == "Crash"
\* no call has been made
NoCall == "NoCall"

NULL == "NULL"
BUF == "BUF"

\* content of a destination byte CopyPixels has not written (no byte value)
Untouched == 0 - 1
\* content read from outside the decoded buffer (no byte value)
Garbage == 0 - 2

\* the byte the decoder stored at offset o of the decoded buffer
Pixel(o) == o % 256

(* ------------------------------- inputs -------------------------------- *)

\* largest width whose stride width * 4 fits an int
MaxSafeWidth == IntMax \div kBytesPerPixel

\* widths and heights WebPDecodeBGRA may store
DecoderDims == {-1, 0, 1, 2, MaxSafeWidth, MaxSafeWidth + 1, IntMax}

Coords == {0, 1, IntMax}
Extents == {0, 1, 2, IntMax}
\* rectangles with one negative field
NegativeRects ==
    {[X |-> -1, Y |-> 0, Width |-> 1, Height |-> 1],
     [X |-> 0, Y |-> -1, Width |-> 1, Height |-> 1],
     [X |-> 0, Y |-> 0, Width |-> -1, Height |-> 1],
     [X |-> 0, Y |-> 0, Width |-> 1, Height |-> -1]}
WICRect == [X : Coords, Y : Coords, Width : Extents, Height : Extents] \cup NegativeRects
\* prc: absent (<< >>) or one rectangle
Prcs == {<< >>} \cup {<<r>> : r \in WICRect}
Strides == {0, 3, 4, 8, UIntMax}
BufferSizes == {0, 7, 8, 16, UIntMax}

(* ------------------------------- state --------------------------------- *)

VARIABLES
    ppOutput,      \* *ppOutput: << >> (null) or <<frame>>, frame = the RGBImage of a DecodeFrame
    hrCreate,      \* HRESULT of the last CreateFromVP8Stream
    rgbReturned,   \* WebPDecodeBGRA returned a buffer in the last CreateFromVP8Stream
    rgbFrees,      \* number of std::free calls on that buffer during the call
    call,          \* arguments of the last CopyPixels: << >> or <<[prc, cbStride, cbBufferSize, pbBuffer]>>
    hr,            \* HRESULT of the last CopyPixels
    dst,           \* the caller's buffer after the last CopyPixels: offset -> byte
    reads,         \* offsets of the decoded buffer the last CopyPixels read
    writes,        \* offsets from pbBuffer the last CopyPixels wrote
    divZero,       \* the last CopyPixels evaluated cbBufferSize / cbStride with cbStride = 0
    tpc,           \* SpecConc: per thread, position inside CopyPixels
    treq,          \* SpecConc: per thread, arguments of its CopyPixels
    trow,          \* SpecConc: per thread, src_y of the copy loop
    tdst,          \* SpecConc: per thread, the caller's buffer
    thr            \* SpecConc: per thread, HRESULT of its last CopyPixels

seqVars == <<hrCreate, rgbReturned, rgbFrees, call, hr, dst, reads, writes, divZero>>
concVars == <<tpc, treq, trow, tdst, thr>>
vars == <<ppOutput, hrCreate, rgbReturned, rgbFrees, call, hr, dst, reads, writes,
          divZero, tpc, treq, trow, tdst, thr>>

Threads == 1 .. NThreads

(* -------------------- DecodeFrame::CreateFromVP8Stream ----------------- *)

\* the RGBImage after lines 53-55: the buffer holds width * height pixels
RGBImage(width, height) ==
    [width  |-> width,
     height |-> height,
     stride |-> WrapInt(width * kBytesPerPixel),
     rgb    |-> [size |-> width * height * kBytesPerPixel, dirty |-> {}]]

\* HRESULT of CreateFromVP8Stream
CreateResult(allocImage, rgb, width, height, allocFrame) ==
    IF ~allocImage THEN E_OUTOFMEMORY
    ELSE IF rgb = NULL THEN WINCODEC_ERR_BADIMAGE
    ELSE IF width <= 0 \/ height <= 0 THEN E_FAIL
    ELSE IF ~allocFrame THEN E_OUTOFMEMORY
    ELSE S_OK

\* std::free calls on the decoder's buffer before CreateFromVP8Stream returns:
\* ~RGBImage runs when the auto_ptr still owns the image at a return.
\* initEvaluated: pImage.release() was evaluated although the allocation of
\* the DecodeFrame returned null.
FreesOnReturn(allocImage, rgb, width, height, allocFrame, initEvaluated) ==
    IF ~allocImage \/ rgb = NULL THEN 0
    ELSE IF width <= 0 \/ height <= 0 THEN 1
    ELSE IF ~allocFrame THEN (IF initEvaluated THEN 0 ELSE 1)
    ELSE 0

NoCopyYet ==
    /\ call' = << >>
    /\ hr' = NoCall
    /\ dst' = << >>
    /\ reads' = {}
    /\ writes' = {}
    /\ divZero' = FALSE

CreateFromVP8Stream ==
    /\ call = << >>
    /\ \E allocImage \in BOOLEAN, rgb \in {NULL, BUF}, width \in DecoderDims,
       height \in DecoderDims, allocFrame \in BOOLEAN, initEvaluated \in BOOLEAN :
        LET result == CreateResult(allocImage, rgb, width, height, allocFrame) IN
        /\ hrCreate' = result
        /\ rgbReturned' = (allocImage /\ rgb # NULL)
        /\ rgbFrees' = FreesOnReturn(allocImage, rgb, width, height, allocFrame, initEvaluated)
        /\ ppOutput' = IF result = S_OK THEN <<RGBImage(width, height)>> ELSE << >>
        /\ NoCopyYet
        /\ UNCHANGED concVars

(* ----------------------- DecodeFrame::CopyPixels ----------------------- *)

\* lines 138-140
EffectiveRect(prc, image) ==
    IF prc = << >>
    THEN [X |-> 0, Y |-> 0, Width |-> image.width, Height |-> image.height]
    ELSE prc[1]

\* mutant of RectNegative: the extents are compared with <= 0
RectNegative_RejectsEmpty(rect) ==
    rect.Width <= 0 \/ rect.Height <= 0 \/ rect.X < 0 \/ rect.Y < 0

\* line 142
RectNegative(rect) ==
    rect.Width < 0 \/ rect.Height < 0 \/ rect.X < 0 \/ rect.Y < 0

\* lines 144-145
RectOutside(rect, image, ovf) ==
    \/ Ovf(ovf, rect.X + rect.Width) > image.width
    \/ Ovf(ovf, rect.Y + rect.Height) > image.height

\* mutant of StrideTooSmall: the multiplication the division is there to avoid
StrideTooSmall_Multiplied(cbStride, rect) ==
    cbStride < ToUInt(rect.Width * kBytesPerPixel)

\* line 149
StrideTooSmall(cbStride, rect) ==
    (cbStride \div kBytesPerPixel) < ToUInt(rect.Width)

\* cbBufferSize / cbStride of line 151, when it does not trap
Quotient(cbBufferSize, cbStride, dz) ==
    IF cbStride = 0 THEN (IF dz = "zero" THEN 0 ELSE UIntMax)
    ELSE cbBufferSize \div cbStride

\* line 151
BufferTooSmall(cbBufferSize, cbStride, rect, dz) ==
    Quotient(cbBufferSize, cbStride, dz) < ToUInt(rect.Height)

\* the checks of lines 136-152 in order; DivisionReached: line 151 is evaluated
DivisionReached(image, c, ovf) ==
    LET rect == EffectiveRect(c.prc, image) IN
    /\ c.pbBuffer # NULL
    /\ ~RectNegative(rect)
    /\ ~RectOutside(rect, image, ovf)
    /\ ~StrideTooSmall(c.cbStride, rect)

\* HRESULT of lines 136-155, S_OK when the copy loop is reached or skipped
Validate(image, c, ovf, dz) ==
    LET rect == EffectiveRect(c.prc, image) IN
    IF c.pbBuffer = NULL THEN E_INVALIDARG
    ELSE IF RectNegative(rect) THEN E_INVALIDARG
    ELSE IF RectOutside(rect, image, ovf) THEN E_INVALIDARG
    ELSE IF StrideTooSmall(c.cbStride, rect) THEN E_INVALIDARG
    ELSE IF c.cbStride = 0 /\ dz = "trap" THEN Crash
    ELSE IF BufferTooSmall(c.cbBufferSize, c.cbStride, rect, dz)
         THEN WINCODEC_ERR_INSUFFICIENTBUFFER
    ELSE S_OK

\* line 154
EmptyRect(rect) == rect.Width = 0 \/ rect.Height = 0

\* the values src_y takes in the loop of line 161
LoopRows(rect, ovf) == rect.Y .. (Ovf(ovf, rect.Y + rect.Height) - 1)

\* the source offset of line 162: src_y * src_stride + x_offset
SrcOffset(rect, image, src_y, ovf) ==
    Ovf(ovf, src_y * image.stride + Ovf(ovf, rect.X * kBytesPerPixel))

\* the byte count of the memcpy of line 162: the int width as a size_t
RowBytes(rect, ovf) ==
    LET width == Ovf(ovf, rect.Width * kBytesPerPixel) IN
    IF width < 0 THEN ToUInt(width) ELSE width

\* the destination offset of the row src_y: dst_buffer after (src_y - Y) steps of line 163
DstOffset(rect, cbStride, src_y) == (src_y - rect.Y) * cbStride

\* the byte of the decoded buffer at offset o
Load(image, o) ==
    IF o < 0 \/ o >= image.rgb.size THEN Garbage
    ELSE IF o \in image.rgb.dirty THEN Garbage
    ELSE Pixel(o)

\* mutant of RowsCopied: the loop runs before the capacity check of line 151
RowsCopied_BeforeCapacityCheck(result, rect, ovf) ==
    IF result \in {S_OK, WINCODEC_ERR_INSUFFICIENTBUFFER} /\ ~EmptyRect(rect)
    THEN LoopRows(rect, ovf) ELSE {}

\* the rows the call copies: none unless validation passed on a non-empty rectangle
RowsCopied(result, rect, ovf) ==
    IF result = S_OK /\ ~EmptyRect(rect) THEN LoopRows(rect, ovf) ELSE {}

\* offsets of the decoded buffer read by the memcpy calls of rows
ReadSet(rows, rect, image, ovf) ==
    UNION {{SrcOffset(rect, image, y, ovf) + i : i \in 0 .. (RowBytes(rect, ovf) - 1)} : y \in rows}

\* offsets from pbBuffer written by the memcpy calls of rows
WriteSet(rows, rect, cbStride, ovf) ==
    UNION {{DstOffset(rect, cbStride, y) + i : i \in 0 .. (RowBytes(rect, ovf) - 1)} : y \in rows}

\* the last row of rows whose memcpy covers destination offset o
LastWriter(rows, rect, cbStride, ovf, o) ==
    LET ws == {y \in rows : /\ o >= DstOffset(rect, cbStride, y)
                            /\ o < DstOffset(rect, cbStride, y) + RowBytes(rect, ovf)}
    IN CHOOSE y \in ws : \A z \in ws : z <= y

\* the caller's buffer after the memcpy calls of rows
Memcpy(buffer, rows, rect, image, cbStride, ovf) ==
    [o \in DOMAIN buffer |->
        IF o \in WriteSet(rows, rect, cbStride, ovf)
        THEN LET y == LastWriter(rows, rect, cbStride, ovf, o) IN
             Load(image, SrcOffset(rect, image, y, ovf) + (o - DstOffset(rect, cbStride, y)))
        ELSE buffer[o]]

\* the caller's buffer of cbBufferSize bytes before the call
FreshBuffer(cbBufferSize) == [o \in 0 .. (cbBufferSize - 1) |-> Untouched]

CopyPixels ==
    /\ ppOutput # << >>
    /\ call = << >>
    /\ \E prc \in Prcs, cbStride \in Strides, cbBufferSize \in BufferSizes,
          pbBuffer \in {NULL, BUF}, ovf \in OverflowModes, dz \in DivZeroModes,
          fault \in BOOLEAN :
        LET image == ppOutput[1]
            c == [prc |-> prc, cbStride |-> cbStride, cbBufferSize |-> cbBufferSize,
                  pbBuffer |-> pbBuffer]
            rect == EffectiveRect(prc, image)
            result == Validate(image, c, ovf, dz)
            rows == RowsCopied(result, rect, ovf)
            rd == ReadSet(rows, rect, image, ovf)
            wr == WriteSet(rows, rect, cbStride, ovf)
            outside == \/ \E o \in rd : o < 0 \/ o >= image.rgb.size
                       \/ \E o \in wr : o < 0 \/ o >= cbBufferSize
        IN
        /\ cbStride # 0 => dz = "trap"
        /\ fault => outside
        /\ call' = <<c>>
        /\ hr' = IF fault THEN Crash ELSE result
        /\ divZero' = (DivisionReached(image, c, ovf) /\ cbStride = 0)
        /\ reads' = rd
        /\ writes' = wr
        /\ dst' = Memcpy(FreshBuffer(cbBufferSize), rows, rect, image, cbStride, ovf)
        /\ UNCHANGED <<ppOutput, hrCreate, rgbReturned, rgbFrees>>
        /\ UNCHANGED concVars

\* the caller is done with the result and the buffer of the finished call
Discard ==
    /\ call # << >>
    /\ NoCopyYet
    /\ UNCHANGED <<ppOutput, hrCreate, rgbReturned, rgbFrees>>
    /\ UNCHANGED concVars

(* ------------ CopyPixels, statement by statement, per thread ----------- *)

\* images and requests of the concurrent callers
ConcDims == {1, 2}
ConcPrcs ==
    {<< >>,
     <<[X |-> 1, Y |-> 0, Width |-> 1, Height |-> 2]>>,
     <<[X |-> 0, Y |-> 1, Width |-> 2, Height |-> 2]>>}
ConcStrides == {4, 8}
ConcBufferSizes == {8, 16}

\* mutant of SourceAfterMemcpy: the operands of memcpy are exchanged
SourceAfterMemcpy_Exchanged(image, rect, src_y) ==
    [image EXCEPT !.rgb.dirty =
        @ \cup {SrcOffset(rect, image, src_y, "wrap") + i : i \in 0 .. (RowBytes(rect, "wrap") - 1)}]

\* the decoded image after one memcpy of line 162: its source operand is only read
SourceAfterMemcpy(image, rect, src_y) == image

\* lines 134-160 of thread t: the checks, then the loop is entered or the call returns
Enter(t) ==
    /\ ppOutput # << >>
    /\ tpc[t] = "idle"
    /\ \E prc \in ConcPrcs, cbStride \in ConcStrides, cbBufferSize \in ConcBufferSizes :
        LET image == ppOutput[1]
            c == [prc |-> prc, cbStride |-> cbStride, cbBufferSize |-> cbBufferSize,
                  pbBuffer |-> BUF]
            rect == EffectiveRect(prc, image)
            result == Validate(image, c, "wrap", "trap")
            copies == result = S_OK /\ ~EmptyRect(rect)
        IN
        /\ treq' = [treq EXCEPT ![t] = <<c>>]
        /\ tdst' = [tdst EXCEPT ![t] = FreshBuffer(cbBufferSize)]
        /\ trow' = [trow EXCEPT ![t] = rect.Y]
        /\ tpc' = [tpc EXCEPT ![t] = IF copies THEN "loop" ELSE "done"]
        /\ thr' = [thr EXCEPT ![t] = IF copies THEN NoCall ELSE result]
    /\ UNCHANGED ppOutput
    /\ UNCHANGED seqVars

\* lines 161-163 of thread t: one iteration of the copy loop
CopyRow(t) ==
    /\ tpc[t] = "loop"
    /\ LET image == ppOutput[1]
           c == treq[t][1]
           rect == EffectiveRect(c.prc, image)
       IN
       /\ trow[t] < Ovf("wrap", rect.Y + rect.Height)
       /\ tdst' = [tdst EXCEPT ![t] =
                      Memcpy(tdst[t], {trow[t]}, rect, image, c.cbStride, "wrap")]
       /\ trow' = [trow EXCEPT ![t] = trow[t] + 1]
       /\ ppOutput' = <<SourceAfterMemcpy(image, rect, trow[t])>>
    /\ UNCHANGED <<tpc, treq, thr>>
    /\ UNCHANGED seqVars

\* lines 161 and 166 of thread t: the loop condition fails and the call returns S_OK
LoopEnd(t) ==
    /\ tpc[t] = "loop"
    /\ LET image == ppOutput[1]
           rect == EffectiveRect(treq[t][1].prc, image)
       IN ~(trow[t] < Ovf("wrap", rect.Y + rect.Height))
    /\ tpc' = [tpc EXCEPT ![t] = "done"]
    /\ thr' = [thr EXCEPT ![t] = S_OK]
    /\ UNCHANGED <<ppOutput, treq, trow, tdst>>
    /\ UNCHANGED seqVars

\* the caller of thread t is done with the result and the buffer
Leave(t) ==
    /\ tpc[t] = "done"
    /\ tpc' = [tpc EXCEPT ![t] = "idle"]
    /\ treq' = [treq EXCEPT ![t] = << >>]
    /\ trow' = [trow EXCEPT ![t] = 0]
    /\ tdst' = [tdst EXCEPT ![t] = << >>]
    /\ thr' = [thr EXCEPT ![t] = NoCall]
    /\ UNCHANGED ppOutput
    /\ UNCHANGED seqVars

(* --------------------------- specification ----------------------------- *)

Init ==
    /\ ppOutput = << >>
    /\ hrCreate = NoCall
    /\ rgbReturned = FALSE
    /\ rgbFrees = 0
    /\ call = << >>
    /\ hr = NoCall
    /\ dst = << >>
    /\ reads = {}
    /\ writes = {}
    /\ divZero = FALSE
    /\ tpc = [t \in Threads |-> "idle"]
    /\ treq = [t \in Threads |-> << >>]
    /\ trow = [t \in Threads |-> 0]
    /\ tdst = [t \in Threads |-> << >>]
    /\ thr = [t \in Threads |-> NoCall]

Next == CreateFromVP8Stream \/ CopyPixels \/ Discard

Spec == Init /\ [][Next]_vars

\* after one successful decode, NThreads callers copy from the same frame
InitConc ==
    /\ ppOutput \in {<<RGBImage(w, h)>> : w \in ConcDims, h \in ConcDims}
    /\ hrCreate = S_OK
    /\ rgbReturned = TRUE
    /\ rgbFrees = 0
    /\ call = << >>
    /\ hr = NoCall
    /\ dst = << >>
    /\ reads = {}
    /\ writes = {}
    /\ divZero = FALSE
    /\ tpc = [t \in Threads |-> "idle"]
    /\ treq = [t \in Threads |-> << >>]
    /\ trow = [t \in Threads |-> 0]
    /\ tdst = [t \in Threads |-> << >>]
    /\ thr = [t \in Threads |-> NoCall]

NextConc == \E t \in Threads : Enter(t) \/ CopyRow(t) \/ LoopEnd(t) \/ Leave(t)

SpecConc == InitConc /\ [][NextConc]_vars


(* ------------------------------ claims --------------------------------- *)

\* a CopyPixels call has finished on the image of ppOutput
Called == call # << >> /\ ppOutput # << >>
TheImage == ppOutput[1]
TheCall == call[1]
TheRect == EffectiveRect(TheCall.prc, TheImage)

\* validation steps 1 and 2 of the contract, in unbounded integers
InsideImage(rect, image) ==
    /\ rect.X >= 0 /\ rect.Y >= 0 /\ rect.Width >= 0 /\ rect.Height >= 0
    /\ rect.X + rect.Width <= image.width
    /\ rect.Y + rect.Height <= image.height

\* validation steps 3 and 4 of the contract, in unbounded integers
DestinationHolds(rect, c) ==
    /\ c.cbStride > 0
    /\ c.cbStride >= rect.Width * kBytesPerPixel
    /\ c.cbBufferSize >= rect.Height * c.cbStride

ErrorCodes == {E_INVALIDARG, WINCODEC_ERR_INSUFFICIENTBUFFER}

\* C1: every byte a CopyPixels call reads lies in the decoded buffer at an
\* offset in [0, stride * height), and every byte it writes lies in the
\* destination at an offset in [0, cbBufferSize).
C1_AccessesInRange ==
    Called =>
        /\ \A o \in reads : o >= 0 /\ o < TheImage.stride * TheImage.height
        /\ \A o \in writes : o >= 0 /\ o < TheCall.cbBufferSize

\* C2: when CopyPixels returns an error code, no byte of the destination has
\* been written: the buffer is as the caller passed it.
C2_ErrorLeavesDestination ==
    (Called /\ hr \in ErrorCodes) =>
        /\ writes = {}
        /\ dst = FreshBuffer(TheCall.cbBufferSize)

\* C2 witness: a non-empty rectangle inside the image with a sufficient stride
\* is refused for its capacity, the last check before the copy loop.
C2_Witness ==
    /\ Called
    /\ hr = WINCODEC_ERR_INSUFFICIENTBUFFER
    /\ TheCall.pbBuffer # NULL
    /\ InsideImage(TheRect, TheImage)
    /\ ~EmptyRect(TheRect)
    /\ TheCall.cbBufferSize > 0
    /\ dst = FreshBuffer(TheCall.cbBufferSize)

C4_OutsideRefused ==
    (/\ Called
     /\ TheCall.pbBuffer # NULL
     /\ TheCall.cbStride # 0
     /\ TheRect.X >= 0 /\ TheRect.Y >= 0 /\ TheRect.Width >= 0 /\ TheRect.Height >= 0
     /\ \/ TheRect.X + TheRect.Width > TheImage.width
        \/ TheRect.Y + TheRect.Height > TheImage.height) =>
        /\ hr = E_INVALIDARG
        /\ writes = {}

\* C5 as stated: every rectangle with Width = 0 or Height = 0 and a non-null
\* destination gives S_OK and no write, whatever cbStride and cbBufferSize.
\* Stated on the calls with cbStride # 0, where line 151 divides by a
\* non-zero stride.
C5_EmptyAlwaysSucceeds ==
    (/\ Called
     /\ TheCall.pbBuffer # NULL
     /\ TheCall.cbStride # 0
     /\ EmptyRect(TheRect)) =>
        /\ hr = S_OK
        /\ writes = {}

\* C5 amended: a rectangle with Width = 0 or Height = 0 that lies inside the
\* image, with a non-null destination whose stride is not 0 and holds
\* Width * 4 bytes and whose capacity holds Height rows, gives S_OK and no
\* byte is written.
C5_EmptyValidSucceeds ==
    (/\ Called
     /\ TheCall.pbBuffer # NULL
     /\ EmptyRect(TheRect)
     /\ InsideImage(TheRect, TheImage)
     /\ DestinationHolds(TheRect, TheCall)) =>
        /\ hr = S_OK
        /\ writes = {}
        /\ dst = FreshBuffer(TheCall.cbBufferSize)

\* C5 witness: an empty rectangle at a non-zero position succeeded on a
\* destination with room.
C5_Witness ==
    /\ Called
    /\ TheCall.pbBuffer # NULL
    /\ TheCall.prc # << >>
    /\ TheRect.Width = 0 /\ TheRect.Height > 0 /\ TheRect.X > 0
    /\ InsideImage(TheRect, TheImage)
    /\ DestinationHolds(TheRect, TheCall)
    /\ TheCall.cbBufferSize > 0
    /\ hr = S_OK

\* C6: a call with cbStride = 0 returns E_INVALIDARG for every rectangle
\* width, and cbBufferSize / cbStride is never evaluated with a zero divisor.
C6_ZeroStrideRefused ==
    (Called /\ TheCall.cbStride = 0) =>
        /\ hr = E_INVALIDARG
        /\ ~divZero

\* C7: for a non-null destination and a rectangle inside the image, a stride
\* below Width * 4 gives E_INVALIDARG (also when the capacity is too small as
\* well), and a sufficient non-zero stride with a capacity below
\* Height * cbStride gives WINCODEC_ERR_INSUFFICIENTBUFFER.
C7_StrideBeforeCapacity ==
    (/\ Called
     /\ TheCall.pbBuffer # NULL
     /\ InsideImage(TheRect, TheImage)) =>
        /\ (TheCall.cbStride < TheRect.Width * kBytesPerPixel) => hr = E_INVALIDARG
        /\ (/\ TheCall.cbStride >= TheRect.Width * kBytesPerPixel
            /\ TheCall.cbStride > 0
            /\ TheCall.cbBufferSize < TheRect.Height * TheCall.cbStride) =>
                hr = WINCODEC_ERR_INSUFFICIENTBUFFER

\* C7 witness: a request failing both the stride and the capacity check is
\* refused with E_INVALIDARG.
C7_Witness ==
    /\ Called
    /\ TheCall.pbBuffer # NULL
    /\ InsideImage(TheRect, TheImage)
    /\ TheCall.cbStride > 0
    /\ TheCall.cbStride < TheRect.Width * kBytesPerPixel
    /\ TheCall.cbBufferSize < TheRect.Height * TheCall.cbStride
    /\ hr = E_INVALIDARG

\* C8: after a failing CreateFromVP8Stream the output handle is null and a
\* buffer the decoder returned has been freed exactly once.
C8_FailureReleasesBuffer ==
    (hrCreate \notin {S_OK, NoCall}) =>
        /\ ppOutput = << >>
        /\ rgbReturned => rgbFrees = 1

\* C9: after a successful CreateFromVP8Stream the stored stride is the
\* product width * 4 in unbounded integers, and width > 0 and height > 0.
C9_StrideIsProduct ==
    (hrCreate = S_OK /\ ppOutput # << >>) =>
        /\ TheImage.stride = TheImage.width * kBytesPerPixel
        /\ TheImage.width > 0
        /\ TheImage.height > 0

\* the result code and the destination the request of thread t gives when it
\* runs alone on the image
AloneResult(t) == Validate(TheImage, treq[t][1], "wrap", "trap")
AloneDestination(t) ==
    LET c == treq[t][1]
        rect == EffectiveRect(c.prc, TheImage)
    IN Memcpy(FreshBuffer(c.cbBufferSize), RowsCopied(AloneResult(t), rect, "wrap"),
              rect, TheImage, c.cbStride, "wrap")

\* C10: no step of any CopyPixels call, in any interleaving, changes the
\* width, height, stride or pixel buffer of the image, and a finished call has
\* the result code and the destination contents its request gives when it runs
\* alone.
C10_CopiesDoNotInterfere ==
    /\ [][ppOutput' = ppOutput]_vars
    /\ [](\A t \in Threads : tpc[t] = "done" =>
            /\ thr[t] = AloneResult(t)
            /\ tdst[t] = AloneDestination(t))

\* C10 witness: one thread has finished a two-row copy while another thread
\* is between the two rows of its own copy.
C10_Witness ==
    \E t, u \in Threads :
        /\ t # u
        /\ tpc[t] = "done" /\ thr[t] = S_OK
        /\ EffectiveRect(treq[t][1].prc, TheImage).Height = 2
        /\ tpc[u] = "loop"
        /\ trow[u] = EffectiveRect(treq[u][1].prc, TheImage).Y + 1

=============================================================================
